---- MODULE Spec2Model ----
(***************************************************************************)
(* A model of the spatial market resolver (economy/market.rs) and of the   *)
(* piecewise-linear function algebra it rests on (economy/function).       *)
(*                                                                         *)
(* Numbers.  Price and Volume wrap f64.  Here both are fixed-point: a      *)
(* Price is an integer number of ticks, one tick being the tolerance of    *)
(* the bisection (Eps), and a Volume is an integer.  The curves that are   *)
(* registered have integer slopes, so that interpolation at an integer     *)
(* argument is exact; sums and shifts of such curves keep that form.       *)
(* The rounding of f64 is modelled where a Price is added to a Price (the  *)
(* shifts): whole ticks are exact below Significand and rounded beyond.    *)
(* Every price and offset of the market lies in the exact range; the       *)
(* rounding of interpolation and of volumes is out of the model.           *)
(***************************************************************************)
EXTENDS Integers, Sequences, FiniteSets, TLC

(***************************************************************************)
(* Bounds of the model.                                                    *)
(***************************************************************************)
MaxOps == 2
MaxPasses == 3
MaxCalls == 2

(***************************************************************************)
(* Program constants.                                                      *)
(***************************************************************************)
\* function/mod.rs:102, the bracket width at which the bisection stops
Eps == 1
\* types/price.rs:17 (f64::MAX) and types/price.rs:14 (f64::MIN): beyond
\* every price and cost of the model, as f64::MAX is beyond every real one
PriceMax == 1000
PriceMin == 0 - PriceMax
\* types/mod.rs:7: a Price is an f64.  An f64 holds every whole number below
\* 2^53; beyond, it holds the numbers of a grid whose spacing doubles with
\* each doubling of the magnitude.  The model keeps that shape with a
\* shorter significand: whole ticks are exact below Significand
Significand == 32

(***************************************************************************)
(* Generic helpers.                                                        *)
(***************************************************************************)
None == <<>>
Some(x) == <<x>>
IsSome(o) == o # <<>>
Unwrap(o) == o[1]

SetMin(S) == CHOOSE x \in S : \A y \in S : x <= y
SetMax(S) == CHOOSE x \in S : \A y \in S : x >= y
min(a, b) == IF a <= b THEN a ELSE b
max(a, b) == IF a >= b THEN a ELSE b

(***************************************************************************)
(* Price arithmetic (types/price.rs): the sum of two prices is the f64     *)
(* nearest to it, a tie going to the neighbour with the even significand.  *)
(***************************************************************************)
Magnitude(x) == IF x < 0 THEN 0 - x ELSE x

RECURSIVE Spacing(_)
Spacing(x) == IF Magnitude(x) < Significand THEN 1 ELSE 2 * Spacing(Magnitude(x) \div 2)

Price_round(x) ==
    LET u == Spacing(x)
        below == (x \div u) * u
        rest == x - below
    IN  IF 2 * rest < u THEN below
        ELSE IF 2 * rest > u THEN below + u
        ELSE IF (below \div u) % 2 = 0 THEN below ELSE below + u

Price_add(a, b) == Price_round(a + b)

(***************************************************************************)
(* FunctionBase: the breakpoints (a map argument -> value) and the cached  *)
(* leftmost and rightmost argument and value.                              *)
(***************************************************************************)
FunctionBase_new(values) ==
    LET la == SetMin(DOMAIN values)
        ra == SetMax(DOMAIN values)
    IN  [left_arg |-> la, left_value |-> values[la],
         right_arg |-> ra, right_value |-> values[ra],
         intervals |-> values]

lower_bound(f, arg) ==
    LET S == {a \in DOMAIN f.intervals : a <= arg}
    IN  IF S = {} THEN None ELSE Some(<<SetMax(S), f.intervals[SetMax(S)]>>)

upper_bound(f, arg) ==
    LET S == {a \in DOMAIN f.intervals : a >= arg}
    IN  IF S = {} THEN None ELSE Some(<<SetMin(S), f.intervals[SetMin(S)]>>)

\* a variant that keeps the receiver's breakpoints only
combine_data_points_of_self(f, g) == DOMAIN f.intervals

combine_data_points(f, g) == DOMAIN f.intervals \cup DOMAIN g.intervals

\* a variant that carries the curve on beyond its last breakpoint
FunctionBase_value_extrapolating(f, arg) ==
    LET lo == lower_bound(f, arg)
        up == upper_bound(f, arg)
    IN  IF IsSome(lo) /\ IsSome(up)
        THEN LET lower_arg == Unwrap(lo)[1]
                 lower_val == Unwrap(lo)[2]
                 upper_arg == Unwrap(up)[1]
                 upper_val == Unwrap(up)[2]
             IN  IF lower_arg = upper_arg
                 THEN lower_val
                 ELSE lower_val + ((upper_val - lower_val) * (arg - lower_arg))
                                      \div (upper_arg - lower_arg)
        ELSE IF IsSome(lo) THEN Unwrap(lo)[2] + (arg - Unwrap(lo)[1])
        ELSE Unwrap(up)[2]

FunctionBase_value(f, arg) ==
    LET lo == lower_bound(f, arg)
        up == upper_bound(f, arg)
    IN  IF IsSome(lo) /\ IsSome(up)
        THEN LET lower_arg == Unwrap(lo)[1]
                 lower_val == Unwrap(lo)[2]
                 upper_arg == Unwrap(up)[1]
                 upper_val == Unwrap(up)[2]
             IN  IF lower_arg = upper_arg
                 THEN lower_val
                 ELSE LET arg_diff == arg - lower_arg
                          arg_range == upper_arg - lower_arg
                          val_diff == upper_val - lower_val
                          change == (val_diff * arg_diff) \div arg_range
                      IN  lower_val + change
        ELSE IF IsSome(lo) THEN Unwrap(lo)[2]
        ELSE Unwrap(up)[2]

FunctionBase_add_value(f, v) ==
    [f EXCEPT !.left_value = @ + v, !.right_value = @ + v,
              !.intervals = [a \in DOMAIN f.intervals |-> f.intervals[a] + v]]

FunctionBase_substract_value(f, v) == FunctionBase_add_value(f, 0 - v)

FunctionBase_add_function(f, g) ==
    [left_arg |-> min(f.left_arg, g.left_arg),
     left_value |-> f.left_value + g.left_value,
     right_arg |-> max(f.right_arg, g.right_arg),
     right_value |-> f.right_value + g.right_value,
     intervals |-> [a \in combine_data_points(f, g) |->
                      FunctionBase_value(f, a) + FunctionBase_value(g, a)]]

\* a variant that subtracts the boundary values and adds the breakpoints
FunctionBase_substract_function_adding(f, g) ==
    [left_arg |-> min(f.left_arg, g.left_arg),
     left_value |-> f.left_value - g.left_value,
     right_arg |-> max(f.right_arg, g.right_arg),
     right_value |-> f.right_value - g.right_value,
     intervals |-> [a \in combine_data_points(f, g) |->
                      FunctionBase_value(f, a) + FunctionBase_value(g, a)]]

FunctionBase_substract_function(f, g) ==
    [left_arg |-> min(f.left_arg, g.left_arg),
     left_value |-> f.left_value - g.left_value,
     right_arg |-> max(f.right_arg, g.right_arg),
     right_value |-> f.right_value - g.right_value,
     intervals |-> [a \in combine_data_points(f, g) |->
                      FunctionBase_value(f, a) - FunctionBase_value(g, a)]]

\* the map closure adds the shift to every key and collect builds the new
\* map in ascending order of the old keys: of two keys that round to the
\* same Price the later, greater one leaves its value
FunctionBase_shift_right(f, shift) ==
    LET moved(k) == Price_add(k, shift)
    IN  [f EXCEPT !.left_arg = moved(@), !.right_arg = moved(@),
                  !.intervals = [a \in {moved(k) : k \in DOMAIN f.intervals} |->
                      f.intervals[SetMax({k \in DOMAIN f.intervals : moved(k) = a})]]]

\* a variant that forgets to turn the shift round
FunctionBase_shift_left_unsigned(f, shift) == FunctionBase_shift_right(f, shift)

FunctionBase_shift_left(f, shift) == FunctionBase_shift_right(f, 0 - shift)

\* the map closure keeps the argument and negates the value; the cached
\* arguments are negated and the cached values are left as they were
FunctionBase_negate(f) ==
    [f EXCEPT !.left_arg = 0 - @, !.right_arg = 0 - @,
              !.intervals = [a \in DOMAIN f.intervals |-> 0 - f.intervals[a]]]

\* (min + max) / 2.: the sum is a Price, rounded as Price_add rounds
midpoint(lo, hi) == Price_add(lo, hi) \div 2

\* the while loop of intersect: the bracket [lo, hi] is halved until it is
\* no wider than Eps.  Where the midpoint rounds to the end of the bracket
\* that it then replaces, the bracket does not change any more and the loop
\* of the program never ends: BisectReturns tells whether the loop ends,
\* and Bisect is the point it returns when it does (the stuck bracket
\* otherwise, which no action reads)
RECURSIVE BisectReturns(_, _, _, _)
BisectReturns(f_smaller, f_greater, lo, hi) ==
    IF hi - lo > Eps
    THEN LET mid == midpoint(lo, hi)
         IN  IF FunctionBase_value(f_smaller, mid) < FunctionBase_value(f_greater, mid)
             THEN mid # lo /\ BisectReturns(f_smaller, f_greater, mid, hi)
             ELSE mid # hi /\ BisectReturns(f_smaller, f_greater, lo, mid)
    ELSE TRUE

RECURSIVE Bisect(_, _, _, _)
Bisect(f_smaller, f_greater, lo, hi) ==
    IF hi - lo > Eps
    THEN LET mid == midpoint(lo, hi)
         IN  IF FunctionBase_value(f_smaller, mid) < FunctionBase_value(f_greater, mid)
             THEN IF mid = lo THEN <<lo, FunctionBase_value(f_smaller, lo)>>
                  ELSE Bisect(f_smaller, f_greater, mid, hi)
             ELSE IF mid = hi THEN <<lo, FunctionBase_value(f_smaller, lo)>>
                  ELSE Bisect(f_smaller, f_greater, lo, mid)
    ELSE <<lo, FunctionBase_value(f_smaller, lo)>>

\* whether the call of intersect returns
FunctionBase_intersect_returns(self, other) ==
    IF self.left_value > other.left_value /\ self.right_value > other.right_value
    THEN TRUE
    ELSE IF self.left_value < other.left_value /\ self.right_value < other.right_value
    THEN TRUE
    ELSE LET f_smaller == IF self.left_value < other.left_value THEN self ELSE other
             f_greater == IF self.left_value < other.left_value THEN other ELSE self
         IN  BisectReturns(f_smaller, f_greater,
                           min(f_smaller.left_arg, f_greater.left_arg),
                           max(f_smaller.right_arg, f_greater.right_arg))

FunctionBase_intersect(self, other) ==
    IF self.left_value > other.left_value /\ self.right_value > other.right_value
    THEN None
    ELSE IF self.left_value < other.left_value /\ self.right_value < other.right_value
    THEN None
    ELSE LET f_smaller == IF self.left_value < other.left_value THEN self ELSE other
             f_greater == IF self.left_value < other.left_value THEN other ELSE self
         IN  Some(Bisect(f_smaller, f_greater,
                         min(f_smaller.left_arg, f_greater.left_arg),
                         max(f_smaller.right_arg, f_greater.right_arg)))

(***************************************************************************)
(* FunctionNullable: None is the absent (zero) curve.  Demand and Supply   *)
(* wrap one FunctionNullable each and delegate to it.                      *)
(***************************************************************************)
FunctionNullable_zero == None

FunctionNullable_new(values) == Some(FunctionBase_new(values))

FunctionNullable_intersect(self, other) ==
    IF IsSome(self) /\ IsSome(other)
    THEN FunctionBase_intersect(Unwrap(self), Unwrap(other))
    ELSE None

FunctionNullable_intersect_returns(self, other) ==
    (IsSome(self) /\ IsSome(other)) =>
        FunctionBase_intersect_returns(Unwrap(self), Unwrap(other))

left_value(self) == IF IsSome(self) THEN Unwrap(self).left_value ELSE 0

right_value(self) == IF IsSome(self) THEN Unwrap(self).right_value ELSE 0

value(self, arg) == IF IsSome(self) THEN FunctionBase_value(Unwrap(self), arg) ELSE 0

add_value(self, v) ==
    IF IsSome(self) THEN Some(FunctionBase_add_value(Unwrap(self), v)) ELSE self

substract_value(self, v) ==
    IF IsSome(self) THEN Some(FunctionBase_substract_value(Unwrap(self), v)) ELSE self

add_function(self, function) ==
    IF IsSome(self) /\ IsSome(function)
    THEN Some(FunctionBase_add_function(Unwrap(self), Unwrap(function)))
    ELSE IF IsSome(function) THEN function
    ELSE self

substract_function(self, function) ==
    IF IsSome(self) /\ IsSome(function)
    THEN Some(FunctionBase_substract_function(Unwrap(self), Unwrap(function)))
    ELSE IF IsSome(function) THEN Some(FunctionBase_negate(Unwrap(function)))
    ELSE self

shift_right(self, shift) ==
    IF IsSome(self) THEN Some(FunctionBase_shift_right(Unwrap(self), shift)) ELSE self

shift_left(self, shift) ==
    IF IsSome(self) THEN Some(FunctionBase_shift_left(Unwrap(self), shift)) ELSE self

negate(self) ==
    IF IsSome(self) THEN Some(FunctionBase_negate(Unwrap(self))) ELSE self

(***************************************************************************)
(* MarketState.                                                            *)
(***************************************************************************)
Undefined == [tag |-> "Undefined", price |-> 0, demand |-> 0, supply |-> 0]
UnderSupply == [tag |-> "UnderSupply", price |-> 0, demand |-> 0, supply |-> 0]
OverSupply == [tag |-> "OverSupply", price |-> 0, demand |-> 0, supply |-> 0]
Equilibrium(p, d, s) == [tag |-> "Equilibrium", price |-> p, demand |-> d, supply |-> s]

\* a variant that reads the leftmost values where the rightmost belong
Demand_intersect_by_left(demand, supply) ==
    LET r == FunctionNullable_intersect(demand, supply)
    IN  IF IsSome(r)
        THEN Equilibrium(Unwrap(r)[1], Unwrap(r)[2], Unwrap(r)[2])
        ELSE IF left_value(demand) > left_value(supply) THEN UnderSupply
        ELSE IF left_value(demand) < left_value(supply) THEN OverSupply
        ELSE Undefined

Demand_intersect(demand, supply) ==
    LET r == FunctionNullable_intersect(demand, supply)
    IN  IF IsSome(r)
        THEN Equilibrium(Unwrap(r)[1], Unwrap(r)[2], Unwrap(r)[2])
        ELSE IF right_value(demand) > right_value(supply) THEN UnderSupply
        ELSE IF left_value(demand) < left_value(supply) THEN OverSupply
        ELSE Undefined

Supply_intersect(supply, demand) == Demand_intersect(demand, supply)

(***************************************************************************)
(* Geography: the connection list of every city.  add_connection pushes    *)
(* the connection on the list of its origin and the reverse connection on  *)
(* the list of its destination.                                            *)
(***************************************************************************)
Cities == {0, 1, 2}

Connection_new(id_from, id_to, cost) ==
    [id_from |-> id_from, id_to |-> id_to, cost |-> cost]

Geography_new == [c \in Cities |-> <<>>]

add_connection(connections, connection) ==
    LET rev_connection ==
            Connection_new(connection.id_to, connection.id_from, connection.cost)
        pushed == [connections EXCEPT ![connection.id_from] = Append(@, connection)]
    IN  [pushed EXCEPT ![connection.id_to] = Append(@, rev_connection)]

\* the loop of Simulation::read_from_file over the scenario's connections
RECURSIVE read_connections(_, _)
read_connections(connections, list) ==
    IF list = <<>> THEN connections
    ELSE read_connections(add_connection(connections, Head(list)), Tail(list))

(***************************************************************************)
(* CityData and Market::new.                                               *)
(***************************************************************************)
CityData_new == [demand |-> FunctionNullable_zero,
                 supply |-> FunctionNullable_zero,
                 state |-> Undefined]

add_demand(city, demand) == [city EXCEPT !.demand = add_function(@, demand)]

substract_demand(city, demand) == [city EXCEPT !.demand = substract_function(@, demand)]

\* a variant that adds the curve to the wrong aggregate
add_supply_to_demand(city, supply) == [city EXCEPT !.demand = add_function(@, supply)]

add_supply(city, supply) == [city EXCEPT !.supply = add_function(@, supply)]

substract_supply(city, supply) == [city EXCEPT !.supply = substract_function(@, supply)]

\* prices maps some of the cities to their initial price
Market_new(prices) ==
    [c \in Cities |->
        IF c \in DOMAIN prices
        THEN [CityData_new EXCEPT !.state = Equilibrium(prices[c], 0, 0)]
        ELSE CityData_new]

price(city) ==
    IF city.state.tag = "Equilibrium" THEN Some(city.state.price) ELSE None

demand_volume(city) ==
    IF city.state.tag = "Equilibrium" THEN Some(city.state.demand) ELSE None

\* a variant that reads the demand volume
supply_volume_second_field(city) ==
    IF city.state.tag = "Equilibrium" THEN Some(city.state.demand) ELSE None

supply_volume(city) ==
    IF city.state.tag = "Equilibrium" THEN Some(city.state.supply) ELSE None

prices(cs) == [c \in DOMAIN cs |-> price(cs[c])]

demand_volumes(cs) == [c \in DOMAIN cs |-> demand_volume(cs[c])]

supply_volumes(cs) == [c \in DOMAIN cs |-> supply_volume(cs[c])]

(***************************************************************************)
(* Group partitioning.                                                     *)
(***************************************************************************)
\* a variant whose last arm sets the two prices as far apart as prices go
endpoint_prices_apart(state_from, state_to) ==
    CASE state_from.tag = "Equilibrium" /\ state_to.tag = "Equilibrium" ->
            <<state_from.price, state_to.price>>
      [] state_from.tag = "OverSupply" /\ state_to.tag = "Equilibrium" ->
            <<PriceMin, state_to.price>>
      [] state_from.tag = "UnderSupply" /\ state_to.tag = "Equilibrium" ->
            <<PriceMax, state_to.price>>
      [] state_from.tag = "Equilibrium" /\ state_to.tag = "OverSupply" ->
            <<state_from.price, PriceMin>>
      [] state_from.tag = "Equilibrium" /\ state_to.tag = "UnderSupply" ->
            <<state_from.price, PriceMax>>
      [] state_from.tag = "UnderSupply" /\ state_to.tag = "OverSupply" ->
            <<PriceMax, PriceMin>>
      [] state_from.tag = "OverSupply" /\ state_to.tag = "UnderSupply" ->
            <<PriceMin, PriceMax>>
      [] OTHER -> <<PriceMin, PriceMax>>

\* the match of calculate_groups_dfs on the states of the two endpoints
endpoint_prices(state_from, state_to) ==
    CASE state_from.tag = "Equilibrium" /\ state_to.tag = "Equilibrium" ->
            <<state_from.price, state_to.price>>
      [] state_from.tag = "OverSupply" /\ state_to.tag = "Equilibrium" ->
            <<PriceMin, state_to.price>>
      [] state_from.tag = "UnderSupply" /\ state_to.tag = "Equilibrium" ->
            <<PriceMax, state_to.price>>
      [] state_from.tag = "Equilibrium" /\ state_to.tag = "OverSupply" ->
            <<state_from.price, PriceMin>>
      [] state_from.tag = "Equilibrium" /\ state_to.tag = "UnderSupply" ->
            <<state_from.price, PriceMax>>
      [] state_from.tag = "UnderSupply" /\ state_to.tag = "OverSupply" ->
            <<PriceMax, PriceMin>>
      [] state_from.tag = "OverSupply" /\ state_to.tag = "UnderSupply" ->
            <<PriceMin, PriceMax>>
      [] OTHER -> <<0, 0>>

\* variants of the joining test: one direction only, the second
\* comparison turned round, and a gap strictly above the cost
joins_one_sided(price_from, price_to, cost) ==
    price_from - price_to >= cost

joins_turned(price_from, price_to, cost) ==
    price_from - price_to >= cost \/ price_to - price_from <= cost

joins_strictly(price_from, price_to, cost) ==
    price_from - price_to > cost \/ price_to - price_from > cost

\* the test that pulls the destination of a connection into the group
joins(price_from, price_to, cost) ==
    price_from - price_to >= cost \/ price_to - price_from >= cost

\* the offset handed to the destination of a connection
next_diff(group_diff, price_from, price_to, cost) ==
    group_diff + cost * (IF price_to > price_from THEN 1 ELSE 0 - 1)

RECURSIVE calculate_groups_dfs(_, _, _, _, _, _)
RECURSIVE dfs_connections(_, _, _, _, _, _, _)

\* groups maps every city visited so far to <<group_id, group_diff>>
calculate_groups_dfs(connections, cs, pos, group_id, group_diff, groups) ==
    IF pos \in DOMAIN groups
    THEN groups
    ELSE dfs_connections(connections, cs, pos, 1, group_id, group_diff,
                         (pos :> <<group_id, group_diff>>) @@ groups)

\* the for loop over connections[pos], from its i-th connection on
dfs_connections(connections, cs, pos, i, group_id, group_diff, groups) ==
    IF i > Len(connections[pos])
    THEN groups
    ELSE LET conn == connections[pos][i]
             pr == endpoint_prices(cs[conn.id_from].state, cs[conn.id_to].state)
             after == IF joins(pr[1], pr[2], conn.cost)
                      THEN calculate_groups_dfs(connections, cs, conn.id_to, group_id,
                               next_diff(group_diff, pr[1], pr[2], conn.cost), groups)
                      ELSE groups
         IN  dfs_connections(connections, cs, pos, i + 1, group_id, group_diff, after)

\* the first loop of calculate_groups: the cities are started from in the
\* order in which the map of cities iterates
RECURSIVE groups_of(_, _, _, _)
groups_of(connections, cs, iteration, groups) ==
    IF iteration = <<>>
    THEN groups
    ELSE groups_of(connections, cs, Tail(iteration),
             calculate_groups_dfs(connections, cs, Head(iteration), Head(iteration),
                                  0, groups))

\* the ids of S in ascending order, as the ordered map of groups yields them
RECURSIVE ascending(_)
ascending(S) ==
    IF S = {} THEN <<>> ELSE <<SetMin(S)>> \o ascending(S \ {SetMin(S)})

\* a variant that pushes the group id where the city id belongs
calculate_groups_pushing_root(connections, cs, iteration) ==
    LET groups == groups_of(connections, cs, iteration, <<>>)
    IN  [g \in DOMAIN cs |->
            LET ids == ascending({c \in DOMAIN groups : groups[c][1] = g})
            IN  [k \in 1 .. Len(ids) |-> <<g, groups[ids[k]][2]>>]]

\* group_id -> the list of <<city, offset>> of its members; the list of a
\* city that is not a root is empty
calculate_groups(connections, cs, iteration) ==
    LET groups == groups_of(connections, cs, iteration, <<>>)
    IN  [g \in DOMAIN cs |->
            LET ids == ascending({c \in DOMAIN groups : groups[c][1] = g})
            IN  [k \in 1 .. Len(ids) |-> <<ids[k], groups[ids[k]][2]>>]]

(***************************************************************************)
(* Group-wide clearing.                                                    *)
(***************************************************************************)
\* map and reduce over the members of a group: every member's curves are
\* shifted left by its offset and summed, starting from the zero curves
RECURSIVE group_curves(_, _, _)
group_curves(cs, group, acc) ==
    IF group = <<>>
    THEN acc
    ELSE LET city == cs[Head(group)[1]]
             price_diff == Head(group)[2]
             city_demand == shift_left(city.demand, price_diff)
             city_supply == shift_left(city.supply, price_diff)
         IN  group_curves(cs, Tail(group),
                 <<add_function(acc[1], city_demand), add_function(acc[2], city_supply)>>)

group_state(cs, group) ==
    LET curves == group_curves(cs, group, <<FunctionNullable_zero, FunctionNullable_zero>>)
    IN  Demand_intersect(curves[1], curves[2])

\* whether the joint solve of a group returns
group_state_returns(cs, group) ==
    LET curves == group_curves(cs, group, <<FunctionNullable_zero, FunctionNullable_zero>>)
    IN  FunctionNullable_intersect_returns(curves[1], curves[2])

\* a variant that takes the offset off the group price
new_state_subtracting(state_global, city, price_diff) ==
    IF state_global.tag = "Equilibrium"
    THEN LET price_local == state_global.price - price_diff
         IN  Equilibrium(price_local, value(city.demand, price_local),
                         value(city.supply, price_local))
    ELSE state_global

\* the state written for one member of a group
new_state(state_global, city, price_diff) ==
    IF state_global.tag = "Equilibrium"
    THEN LET price_local == state_global.price + price_diff
         IN  Equilibrium(price_local, value(city.demand, price_local),
                         value(city.supply, price_local))
    ELSE state_global

\* the loop that writes the states of the members of one group
RECURSIVE write_group(_, _, _)
write_group(cs, group, state_global) ==
    IF group = <<>>
    THEN cs
    ELSE LET city_id == Head(group)[1]
             price_diff == Head(group)[2]
         IN  write_group([cs EXCEPT ![city_id].state =
                              new_state(state_global, cs[city_id], price_diff)],
                         Tail(group), state_global)

\* a variant that evaluates the curves of the first city for every member
set_member_state_of_first(cs, member, state) ==
    [cs EXCEPT ![member[1]].state = new_state(state, cs[SetMin(DOMAIN cs)], member[2])]

\* one turn of the loop that writes the members of a group
set_member_state(cs, member, state) ==
    [cs EXCEPT ![member[1]].state = new_state(state, cs[member[1]], member[2])]

\* a variant that writes the members of a group only when the group clears
clear_group_when_cleared(cs, group) ==
    IF group_state(cs, group).tag = "Equilibrium"
    THEN write_group(cs, group, group_state(cs, group))
    ELSE cs

clear_group(cs, group) == write_group(cs, group, group_state(cs, group))

\* a whole pass, the groups taken one after another in the order of their ids
RECURSIVE clear_groups(_, _, _)
clear_groups(cs, lists, ids) ==
    IF ids = <<>> THEN cs
    ELSE clear_groups(clear_group(cs, lists[Head(ids)]), lists, Tail(ids))

update_prices(connections, cs, iteration) ==
    clear_groups(cs, calculate_groups(connections, cs, iteration), ascending(DOMAIN cs))

\* a variant in which the map iterates in another order from its third
\* traversal on
iteration_rehashed(iteration, n) ==
    IF n < 2 THEN iteration ELSE Tail(iteration) \o <<Head(iteration)>>

\* the order in which the n-th traversal of the map of cities visits the
\* cities: no key is ever inserted or removed, so it is the same every time
iteration_order(iteration, n) == iteration

\* a variant that resets the prices to zero
reset_prices_to_zero(cs) == [c \in DOMAIN cs |-> [cs[c] EXCEPT !.state = Equilibrium(0, 0, 0)]]

reset_prices(cs) == [c \in DOMAIN cs |-> [cs[c] EXCEPT !.state = Undefined]]

(***************************************************************************)
(* The inputs of the model.                                                *)
(***************************************************************************)
\* the curves of tests::calculation::single_node_1, and a pair of curves
\* that do not reach zero (a lone demand of this kind is under-supplied, a
\* lone supply over-supplied)
DemandA == FunctionNullable_new((0 :> 4) @@ (4 :> 0))
SupplyA == FunctionNullable_new((0 :> 0) @@ (4 :> 4))
DemandB == FunctionNullable_new((0 :> 6) @@ (4 :> 2))
SupplyB == FunctionNullable_new((0 :> 2) @@ (4 :> 6))

Consumers == {[city |-> 0, demand |-> DemandA], [city |-> 1, demand |-> DemandB]}
Producers == {[city |-> 0, supply |-> SupplyA], [city |-> 1, supply |-> SupplyB]}

\* the orders in which the concurrent map of the cities may iterate
Iterations == {s \in [1 .. Cardinality(Cities) -> Cities] :
                  \A c \in Cities : \E k \in DOMAIN s : s[k] = c}

\* the networks and initial prices of the market's life cycle
Networks ==
    { <<>>,
      <<Connection_new(0, 1, 2), Connection_new(1, 2, 0), Connection_new(0, 2, 0)>>,
      <<Connection_new(0, 1, 2), Connection_new(1, 2, 2)>> }
InitialPrices == { <<>>, (0 :> 0) @@ (1 :> 4) @@ (2 :> 4) }

\* the networks and states of the partitioning harness (tests::groups builds
\* the market from a geography and a state for every city)
Roads == << <<0, 1>>, <<1, 2>>, <<0, 2>> >>
Costs == {0, 2}
Absent == 0 - 1
RECURSIVE road_list(_, _)
road_list(choice, k) ==
    IF k > Len(Roads) THEN <<>>
    ELSE (IF choice[k] = Absent THEN <<>>
          ELSE <<Connection_new(Roads[k][1], Roads[k][2], choice[k])>>)
         \o road_list(choice, k + 1)
HarnessNetworks == {road_list(ch, 1) : ch \in [DOMAIN Roads -> Costs \cup {Absent}]}
HarnessStates == {Undefined, UnderSupply, OverSupply} \cup
                 {Equilibrium(p, 0, 0) : p \in {0, 4, 8}}

\* the scenarios that Simulation::read_from_file loads: the entities of the
\* file are registered, the producers first, before the first pass
Scenarios ==
    { [connections |-> list, producers |-> prods, consumers |-> <<[city |-> 0, demand |-> DemandA]>>] :
        list \in {<<>>, <<Connection_new(0, 1, 0)>>},
        prods \in {<<>>, <<[city |-> 1, supply |-> SupplyB]>>} }

\* the curves of the function algebra taken on its own (the tests of
\* function/mod.rs build theirs with make_function): every curve on the
\* breakpoints 0 and 4, two curves that are not monotone, two of a single
\* point (one of them constantly 0), one on another range, and the absent
\* curve; the shifts and the arguments of value are whole ticks, one shift
\* being large enough for a shifted argument to leave the exact range
CurveShapes ==
    [{0, 4} -> {0, 4, 8}] \cup
    { (0 :> 8) @@ (2 :> 0) @@ (4 :> 8), (0 :> 0) @@ (2 :> 8) @@ (4 :> 0),
      (2 :> 0), (2 :> 4), (2 :> 0) @@ (6 :> 8) }
Curves == {FunctionNullable_zero} \cup {FunctionNullable_new(v) : v \in CurveShapes}
Shifts == {1, 2, 2 * Significand}
Arguments == (0 - 1) .. 5

(***************************************************************************)
(* The state of the model.                                                 *)
(*   connections  Geography::connections                                   *)
(*   iteration    the order in which the map of cities iterates; fixed     *)
(*                when the map is built, as no key is inserted or removed  *)
(*   cities       Market::cities, city id -> CityData                      *)
(*   pc           "idle", or "clearing" inside update_prices               *)
(*   group_lists  the partition of the current (or last) pass              *)
(*   pending      the groups of the pass whose task has not run yet        *)
(*   before       the states of the cities when the pass began             *)
(*   history      the states left by the passes since the last             *)
(*                registration or reset                                    *)
(*   ops, passes  the numbers of registration calls and of passes          *)
(*   last_call    the last call that returned                              *)
(*   reset_mark   "reset" after reset_prices, "pass" for the pass that     *)
(*                follows it                                               *)
(*   pair_base    after add_producer or add_consumer, the market as it     *)
(*                stood before that call; kept by the remove call of the   *)
(*                same entity that follows it at once, None otherwise      *)
(* and, for the function algebra taken on its own,                         *)
(*   receiver     the curve the methods are called on                      *)
(*   operand      the curve handed to the binary methods                   *)
(*   calls        the calls made so far: method, argument, the receiver    *)
(*                before and after, and the value returned                 *)
(* and, for the tasks of a pass taken step by step,                        *)
(*   state_global the joint solve of every group whose task has computed   *)
(*                it and has not finished                                  *)
(*   written      the number of members every unfinished task has written  *)
(***************************************************************************)
VARIABLES connections, iteration, cities, pc, group_lists, pending, before,
          history, ops, passes, last_call, reset_mark, pair_base,
          receiver, operand, calls, state_global, written

market_vars == <<connections, iteration, cities, pc, group_lists, pending, before,
                 history, ops, passes, last_call, reset_mark, pair_base>>

algebra_vars == <<receiver, operand, calls>>

task_vars == <<state_global, written>>

vars == <<market_vars, algebra_vars, task_vars>>

states_of(cs) == [c \in DOMAIN cs |-> cs[c].state]

\* the market specifications make no call on the lone curve
NoAlgebra == receiver = None /\ operand = None /\ calls = <<>>

\* no task of a pass is under way
NoTasks == state_global = [g \in Cities |-> None] /\ written = [g \in Cities |-> 0]

InitCommon ==
    /\ pc = "idle"
    /\ group_lists = [c \in Cities |-> <<>>]
    /\ pending = {}
    /\ before = states_of(cities)
    /\ history = <<>>
    /\ ops = 0
    /\ passes = 0
    /\ last_call = [op |-> "new", city |-> 0]
    /\ reset_mark = "none"
    /\ pair_base = None
    /\ NoTasks

Init ==
    /\ \E list \in Networks : connections = read_connections(Geography_new, list)
    /\ iteration \in Iterations
    /\ \E initial \in InitialPrices : cities = Market_new(initial)
    /\ InitCommon
    /\ NoAlgebra

InitHarness ==
    /\ \E list \in HarnessNetworks : connections = read_connections(Geography_new, list)
    /\ iteration \in Iterations
    /\ \E st \in [Cities -> HarnessStates] :
           cities = [c \in Cities |-> [CityData_new EXCEPT !.state = st[c]]]
    /\ InitCommon
    /\ NoAlgebra

(***************************************************************************)
(* Registration.                                                           *)
(***************************************************************************)
Registered(op, city) ==
    /\ ops' = ops + 1
    /\ history' = <<>>
    /\ last_call' = [op |-> op, city |-> city]
    /\ pair_base' =
           CASE op \in {"add_producer", "add_consumer"} -> Some(cities)
             [] op = "remove_producer" /\ last_call = [op |-> "add_producer", city |-> city] ->
                    pair_base
             [] op = "remove_consumer" /\ last_call = [op |-> "add_consumer", city |-> city] ->
                    pair_base
             [] OTHER -> None
    /\ UNCHANGED <<connections, iteration, pc, group_lists, pending, before,
                   passes, reset_mark, algebra_vars, task_vars>>

AddProducer(prod) ==
    /\ pc = "idle" /\ ops < MaxOps
    /\ cities' = [cities EXCEPT ![prod.city] = add_supply(@, prod.supply)]
    /\ Registered("add_producer", prod.city)

RemoveProducer(prod) ==
    /\ pc = "idle" /\ ops < MaxOps
    /\ cities' = [cities EXCEPT ![prod.city] = substract_supply(@, prod.supply)]
    /\ Registered("remove_producer", prod.city)

AddConsumer(cons) ==
    /\ pc = "idle" /\ ops < MaxOps
    /\ cities' = [cities EXCEPT ![cons.city] = add_demand(@, cons.demand)]
    /\ Registered("add_consumer", cons.city)

RemoveConsumer(cons) ==
    /\ pc = "idle" /\ ops < MaxOps
    /\ cities' = [cities EXCEPT ![cons.city] = substract_demand(@, cons.demand)]
    /\ Registered("remove_consumer", cons.city)

(***************************************************************************)
(* update_prices: the partition, then one task for every group, in any     *)
(* order; the call returns when the last task has run.                     *)
(***************************************************************************)
\* a variant that does not wait for the tasks of the pass before
BeginUpdate_overlapping ==
    /\ passes < MaxPasses
    /\ group_lists' = calculate_groups(connections, cities, iteration_order(iteration, passes))
    /\ pending' = {g \in Cities : group_lists'[g] # <<>>}
    /\ before' = states_of(cities)
    /\ pc' = "clearing"
    /\ passes' = passes + 1
    /\ reset_mark' = IF reset_mark = "reset" THEN "pass" ELSE "none"
    /\ pair_base' = None
    /\ UNCHANGED <<connections, iteration, cities, history, ops, last_call,
                   algebra_vars, task_vars>>

BeginUpdate ==
    /\ pc = "idle" /\ passes < MaxPasses
    /\ group_lists' = calculate_groups(connections, cities, iteration_order(iteration, passes))
    /\ pending' = {g \in Cities : group_lists'[g] # <<>>}
    /\ before' = states_of(cities)
    /\ pc' = "clearing"
    /\ passes' = passes + 1
    /\ reset_mark' = IF reset_mark = "reset" THEN "pass" ELSE "none"
    /\ pair_base' = None
    /\ UNCHANGED <<connections, iteration, cities, history, ops, last_call,
                   algebra_vars, task_vars>>

ClearGroup(g) ==
    /\ pc = "clearing" /\ g \in pending
    /\ group_state_returns(cities, group_lists[g])
    /\ cities' = clear_group(cities, group_lists[g])
    /\ pending' = pending \ {g}
    /\ IF pending' = {}
       THEN /\ pc' = "idle"
            /\ history' = Append(history, states_of(cities'))
            /\ last_call' = [op |-> "update_prices", city |-> 0]
       ELSE UNCHANGED <<pc, history, last_call>>
    /\ UNCHANGED <<connections, iteration, group_lists, before, ops, passes,
                   reset_mark, pair_base, algebra_vars,
                   task_vars>>

(***************************************************************************)
(* reset_prices.                                                           *)
(***************************************************************************)
ResetPrices ==
    /\ pc = "idle"
    /\ cities' = reset_prices(cities)
    /\ history' = <<>>
    /\ last_call' = [op |-> "reset_prices", city |-> 0]
    /\ reset_mark' = "reset"
    /\ pair_base' = None
    /\ UNCHANGED <<connections, iteration, pc, group_lists, pending, before,
                   ops, passes, algebra_vars, task_vars>>

Next ==
    \/ \E prod \in Producers : AddProducer(prod)
    \/ \E prod \in Producers : RemoveProducer(prod)
    \/ \E cons \in Consumers : AddConsumer(cons)
    \/ \E cons \in Consumers : RemoveConsumer(cons)
    \/ BeginUpdate
    \/ \E g \in Cities : ClearGroup(g)
    \/ ResetPrices

Spec == Init /\ [][Next]_vars

NextHarness ==
    \/ BeginUpdate
    \/ \E g \in Cities : ClearGroup(g)

SpecHarness == InitHarness /\ [][NextHarness]_vars

(***************************************************************************)
(* The market as Simulation::read_from_file hands it over: built without   *)
(* initial prices, the producers and then the consumers of the scenario    *)
(* registered.  The calls that follow are those of Next.                   *)
(***************************************************************************)
RECURSIVE add_producers(_, _)
add_producers(cs, list) ==
    IF list = <<>> THEN cs
    ELSE add_producers([cs EXCEPT ![Head(list).city] = add_supply(@, Head(list).supply)],
                       Tail(list))

RECURSIVE add_consumers(_, _)
add_consumers(cs, list) ==
    IF list = <<>> THEN cs
    ELSE add_consumers([cs EXCEPT ![Head(list).city] = add_demand(@, Head(list).demand)],
                       Tail(list))

read_from_file(scenario) ==
    add_consumers(add_producers(Market_new(<<>>), scenario.producers), scenario.consumers)

InitLoaded ==
    /\ \E scenario \in Scenarios :
           /\ connections = read_connections(Geography_new, scenario.connections)
           /\ cities = read_from_file(scenario)
    /\ iteration \in Iterations
    /\ InitCommon
    /\ NoAlgebra

SpecLoaded == InitLoaded /\ [][Next]_vars

(***************************************************************************)
(* update_prices with its tasks taken step by step: the task of a group    *)
(* first computes the joint solve of the group, then writes its members    *)
(* one by one, and the tasks of a pass interleave in any way.  The market  *)
(* is one that a scenario file gives: initial prices, then the producers   *)
(* and the consumers registered.                                           *)
(***************************************************************************)
\* the curves of single_node_1 moved to prices where neighbouring floats
\* are further apart than the tolerance of the bisection
Far == 2 * Significand
DemandFar == FunctionNullable_new((Far :> 4) @@ (Far + 4 :> 0))
SupplyFar == FunctionNullable_new((Far :> 0) @@ (Far + 4 :> 4))

ProducerLists == {<<>>, <<[city |-> 0, supply |-> SupplyA]>>,
                  <<[city |-> 1, supply |-> SupplyB]>>,
                  <<[city |-> 0, supply |-> SupplyA], [city |-> 1, supply |-> SupplyB]>>,
                  <<[city |-> 2, supply |-> SupplyFar]>>}
ConsumerLists == {<<>>, <<[city |-> 0, demand |-> DemandA]>>,
                  <<[city |-> 1, demand |-> DemandB]>>,
                  <<[city |-> 0, demand |-> DemandA], [city |-> 1, demand |-> DemandB]>>,
                  <<[city |-> 2, demand |-> DemandFar]>>}

InitTasks ==
    /\ \E list \in Networks : connections = read_connections(Geography_new, list)
    /\ iteration \in Iterations
    /\ \E initial \in InitialPrices :
       \E prods \in ProducerLists :
       \E cons \in ConsumerLists :
           cities = add_consumers(add_producers(Market_new(initial), prods), cons)
    /\ InitCommon
    /\ NoAlgebra

SolveGroup(g) ==
    /\ pc = "clearing" /\ g \in pending
    /\ state_global[g] = None
    /\ group_state_returns(cities, group_lists[g])
    /\ state_global' = [state_global EXCEPT ![g] = Some(group_state(cities, group_lists[g]))]
    /\ UNCHANGED <<market_vars, algebra_vars, written>>

WriteMember(g) ==
    /\ pc = "clearing" /\ g \in pending
    /\ state_global[g] # None
    /\ cities' = set_member_state(cities, group_lists[g][written[g] + 1],
                                  Unwrap(state_global[g]))
    /\ IF written[g] + 1 < Len(group_lists[g])
       THEN /\ written' = [written EXCEPT ![g] = @ + 1]
            /\ UNCHANGED <<state_global, pending, pc, history, last_call>>
       ELSE /\ written' = [written EXCEPT ![g] = 0]
            /\ state_global' = [state_global EXCEPT ![g] = None]
            /\ pending' = pending \ {g}
            /\ IF pending' = {}
               THEN /\ pc' = "idle"
                    /\ history' = Append(history, states_of(cities'))
                    /\ last_call' = [op |-> "update_prices", city |-> 0]
               ELSE UNCHANGED <<pc, history, last_call>>
    /\ UNCHANGED <<connections, iteration, group_lists, before, ops, passes,
                   reset_mark, pair_base, algebra_vars>>

NextTasks ==
    \/ BeginUpdate
    \/ \E g \in Cities : SolveGroup(g)
    \/ \E g \in Cities : WriteMember(g)

SpecTasks == InitTasks /\ [][NextTasks]_vars

(***************************************************************************)
(* The function algebra on its own: a receiver and an operand are drawn    *)
(* and the methods of FunctionNullable, and the classification of Demand   *)
(* and Supply, are called on the receiver.                                 *)
(***************************************************************************)
InitAlgebra ==
    /\ connections = Geography_new
    /\ iteration = ascending(Cities)
    /\ cities = Market_new(<<>>)
    /\ InitCommon
    /\ receiver \in Curves
    /\ operand \in Curves
    /\ calls = <<>>

Called(method, arg, now, returned) ==
    /\ calls' = Append(calls, [method |-> method, arg |-> arg, was |-> receiver,
                               now |-> now, returned |-> returned])
    /\ receiver' = now
    /\ UNCHANGED <<operand, market_vars, task_vars>>

Value(arg) ==
    /\ Len(calls) < MaxCalls
    /\ Called("value", arg, receiver, value(receiver, arg))

\* the amounts added to and taken from every value of the receiver
Amounts == {2}

AddValue(v) ==
    /\ Len(calls) < MaxCalls
    /\ Called("add_value", v, add_value(receiver, v), None)

SubstractValue(v) ==
    /\ Len(calls) < MaxCalls
    /\ Called("substract_value", v, substract_value(receiver, v), None)

AddFunction ==
    /\ Len(calls) < MaxCalls
    /\ Called("add_function", 0, add_function(receiver, operand), None)

SubstractFunction ==
    /\ Len(calls) < MaxCalls
    /\ Called("substract_function", 0, substract_function(receiver, operand), None)

ShiftRight(shift) ==
    /\ Len(calls) < MaxCalls
    /\ Called("shift_right", shift, shift_right(receiver, shift), None)

ShiftLeft(shift) ==
    /\ Len(calls) < MaxCalls
    /\ Called("shift_left", shift, shift_left(receiver, shift), None)

Negate ==
    /\ Len(calls) < MaxCalls
    /\ Called("negate", 0, negate(receiver), None)

Intersect ==
    /\ Len(calls) < MaxCalls
    /\ FunctionNullable_intersect_returns(receiver, operand)
    /\ Called("intersect", 0, receiver, FunctionNullable_intersect(receiver, operand))

\* the receiver as a Demand, the operand as the Supply
DemandIntersect ==
    /\ Len(calls) < MaxCalls
    /\ FunctionNullable_intersect_returns(receiver, operand)
    /\ Called("Demand::intersect", 0, receiver, Demand_intersect(receiver, operand))

\* the receiver as a Supply, the operand as the Demand
SupplyIntersect ==
    /\ Len(calls) < MaxCalls
    /\ FunctionNullable_intersect_returns(operand, receiver)
    /\ Called("Supply::intersect", 0, receiver, Supply_intersect(receiver, operand))

NextAlgebra ==
    \/ \E arg \in Arguments : Value(arg)
    \/ \E v \in Amounts : AddValue(v)
    \/ \E v \in Amounts : SubstractValue(v)
    \/ AddFunction
    \/ SubstractFunction
    \/ \E shift \in Shifts : ShiftRight(shift)
    \/ \E shift \in Shifts : ShiftLeft(shift)
    \/ Negate
    \/ Intersect
    \/ DemandIntersect
    \/ SupplyIntersect

SpecAlgebra == InitAlgebra /\ [][NextAlgebra]_vars

(***************************************************************************)
(* Vocabulary of the properties.                                           *)
(***************************************************************************)
Abs(x) == IF x < 0 THEN 0 - x ELSE x

Roots == {g \in Cities : group_lists[g] # <<>>}

MembersOf(lists, g) == {lists[g][k][1] : k \in DOMAIN lists[g]}

\* the grouping as a set of sets of cities
PartitionOf(lists) == {MembersOf(lists, g) : g \in {h \in DOMAIN lists : lists[h] # <<>>}}

GroupIdOf(c) == CHOOSE g \in Cities : c \in MembersOf(group_lists, g)

OffsetOf(c) ==
    LET g == GroupIdOf(c)
        k == CHOOSE j \in DOMAIN group_lists[g] : group_lists[g][j][1] = c
    IN  group_lists[g][k][2]

ConnectionsSet == UNION {{connections[c][i] : i \in DOMAIN connections[c]} : c \in Cities}

\* the market as it stood when the pass began
MarketBefore == [c \in Cities |-> [cities[c] EXCEPT !.state = before[c]]]

\* the gap between the effective prices of the endpoints of a connection
\* when the pass began
GapBefore(conn) ==
    LET pr == endpoint_prices(before[conn.id_from], before[conn.id_to])
    IN  Abs(pr[1] - pr[2])

Partitioned == passes > 0

JustPartitioned == pc = "clearing" /\ pending = Roots

(***************************************************************************)
(* C1.  After the partitioning of a market whose cities are all in         *)
(* Equilibrium, every connection whose endpoints lie in different groups   *)
(* has price(from) - price(to) < cost and price(to) - price(from) < cost.  *)
(***************************************************************************)
C1_InterGroupGapBelowCost ==
    (Partitioned /\ \A c \in Cities : before[c].tag = "Equilibrium") =>
        \A conn \in ConnectionsSet :
            GroupIdOf(conn.id_from) # GroupIdOf(conn.id_to) =>
                /\ before[conn.id_from].price - before[conn.id_to].price < conn.cost
                /\ before[conn.id_to].price - before[conn.id_from].price < conn.cost

C1_Witness ==
    /\ Partitioned
    /\ \A c \in Cities : before[c].tag = "Equilibrium"
    /\ \E conn \in ConnectionsSet : GroupIdOf(conn.id_from) # GroupIdOf(conn.id_to)
    /\ \E conn \in ConnectionsSet :
           /\ conn.id_from # conn.id_to
           /\ GroupIdOf(conn.id_from) = GroupIdOf(conn.id_to)

(***************************************************************************)
(* C2.  Partitioning yields a partition whatever the geography and the     *)
(* states: every city is in exactly one group list, exactly once, and      *)
(* every non-empty list is stored under the id of one of its members,      *)
(* which carries the offset 0.                                             *)
(***************************************************************************)
C2_GroupsArePartition ==
    Partitioned =>
        /\ \A c \in Cities :
               Cardinality({gk \in {<<g, k>> : g \in Cities, k \in 1 .. Cardinality(Cities)} :
                               /\ gk[2] \in DOMAIN group_lists[gk[1]]
                               /\ group_lists[gk[1]][gk[2]][1] = c}) = 1
        /\ \A g \in Cities :
               group_lists[g] # <<>> =>
                   \E k \in DOMAIN group_lists[g] : group_lists[g][k] = <<g, 0>>

C2_Witness ==
    /\ Partitioned
    /\ \E g \in Cities : Len(group_lists[g]) >= 2
    /\ \E g \in Cities : group_lists[g] = <<>>
    /\ \E c \in Cities : before[c].tag = "UnderSupply"
    /\ \E c \in Cities : before[c].tag = "Equilibrium"

(***************************************************************************)
(* C3.  A group is never larger than the arbitrage closure: every member   *)
(* other than the root was reached over a connection from a member of the  *)
(* same group whose gap was at or above its cost when the pass began (and  *)
(* its offset is that member's offset plus or minus the cost), and every   *)
(* member is linked to the root by a path of such connections inside the   *)
(* group.                                                                  *)
(***************************************************************************)
QualifyingInto(g, m) ==
    {conn \in ConnectionsSet :
        /\ conn.id_to = m
        /\ conn.id_from # m
        /\ conn.id_from \in MembersOf(group_lists, g)
        /\ GapBefore(conn) >= conn.cost}

RECURSIVE ClosureIn(_, _)
ClosureIn(g, S) ==
    LET T == S \cup {m \in MembersOf(group_lists, g) :
                        \E conn \in QualifyingInto(g, m) : conn.id_from \in S}
    IN  IF T = S THEN S ELSE ClosureIn(g, T)

C3_GroupsWithinClosure ==
    Partitioned =>
        \A g \in Roots :
            /\ \A m \in MembersOf(group_lists, g) \ {g} :
                   \E conn \in QualifyingInto(g, m) :
                       Abs(OffsetOf(m) - OffsetOf(conn.id_from)) = conn.cost
            /\ MembersOf(group_lists, g) = ClosureIn(g, {g})

C3_Witness ==
    /\ Partitioned
    /\ \E g \in Roots : Len(group_lists[g]) >= 2
    /\ \E conn \in ConnectionsSet :
           /\ before[conn.id_from].tag = "Equilibrium"
           /\ before[conn.id_to].tag = "Equilibrium"
           /\ GapBefore(conn) < conn.cost
           /\ GroupIdOf(conn.id_from) # GroupIdOf(conn.id_to)

(***************************************************************************)
(* C4.  For a fixed geography and fixed states the grouping, as a set of   *)
(* sets of cities, is the same for every order in which the start cities   *)
(* are picked and every order in which a city's connections are explored.  *)
(***************************************************************************)
SeqPermutations(q) ==
    {[k \in DOMAIN q |-> q[f[k]]] :
        f \in {h \in [DOMAIN q -> DOMAIN q] : \A i \in DOMAIN q : \E j \in DOMAIN q : h[j] = i}}

ExplorationOrders ==
    {e \in [Cities -> UNION {SeqPermutations(connections[c]) : c \in Cities}] :
        \A c \in Cities : e[c] \in SeqPermutations(connections[c])}

C4_GroupingOrderIndependent ==
    JustPartitioned =>
        \A it \in Iterations : \A e \in ExplorationOrders :
            PartitionOf(calculate_groups(e, MarketBefore, it)) = PartitionOf(group_lists)

C4_Witness ==
    /\ JustPartitioned
    /\ Cardinality(Roots) = 2
    /\ \E it \in Iterations :
           LET other == calculate_groups(connections, MarketBefore, it)
           IN  /\ {g \in Cities : other[g] # <<>>} # Roots
               /\ PartitionOf(other) = PartitionOf(group_lists)

(***************************************************************************)
(* C5.  After update_prices, in every group whose joint solve is           *)
(* Equilibrium the cleared demand volumes of the members sum to the sum of *)
(* their cleared supply volumes within the tolerance of the intersection:  *)
(* the excess of demand over supply at the written price is zero or        *)
(* changes sign within Eps of it.  A city that forms a group on its own    *)
(* ends with demand equal to supply in this sense, and the scenario of     *)
(* single_node_1 clears at price 2 with both volumes 2, within Eps.        *)
(***************************************************************************)
PassReturned == pc = "idle" /\ last_call.op = "update_prices"

RECURSIVE SumOver(_, _)
SumOver(f, S) ==
    IF S = {} THEN 0
    ELSE LET x == CHOOSE y \in S : TRUE IN f[x] + SumOver(f, S \ {x})

WrittenExcess(g) ==
    SumOver([c \in Cities |-> cities[c].state.demand - cities[c].state.supply],
            MembersOf(group_lists, g))

\* the excess of the members' own curves at group price q
ExcessAt(g, q) ==
    SumOver([c \in Cities |->
                IF c \in MembersOf(group_lists, g)
                THEN value(cities[c].demand, q + OffsetOf(c))
                     - value(cities[c].supply, q + OffsetOf(c))
                ELSE 0],
            MembersOf(group_lists, g))

C5_GroupClears ==
    PassReturned =>
        /\ \A g \in Roots :
               cities[g].state.tag = "Equilibrium" =>
                   \/ WrittenExcess(g) = 0
                   \/ WrittenExcess(g) > 0 /\ ExcessAt(g, cities[g].state.price + Eps) <= 0
                   \/ WrittenExcess(g) < 0 /\ ExcessAt(g, cities[g].state.price + Eps) >= 0
        /\ ( /\ cities[0].demand = DemandA
             /\ cities[0].supply = SupplyA
             /\ group_lists[0] = << <<0, 0>> >> ) =>
               /\ cities[0].state.tag = "Equilibrium"
               /\ Abs(cities[0].state.price - 2) <= Eps
               /\ Abs(cities[0].state.demand - 2) <= Eps
               /\ Abs(cities[0].state.supply - 2) <= Eps

(***************************************************************************)
(* C6.  When two adjacent cities are solved in one group, the gap between  *)
(* their prices having been at or above the cost of the connection between *)
(* them, and the solve is Equilibrium, the prices written for them differ  *)
(* by exactly that cost, the city that had the higher price before the     *)
(* pass receiving the higher price.                                        *)
(***************************************************************************)
C6_ResolvedPricesDifferByCost ==
    PassReturned =>
        \A conn \in ConnectionsSet :
            LET a == conn.id_from
                b == conn.id_to
            IN  ( /\ before[a].tag = "Equilibrium"
                  /\ before[b].tag = "Equilibrium"
                  /\ Abs(before[a].price - before[b].price) >= conn.cost
                  /\ GroupIdOf(a) = GroupIdOf(b)
                  /\ cities[a].state.tag = "Equilibrium" ) =>
                    /\ Abs(cities[a].state.price - cities[b].state.price) = conn.cost
                    /\ before[a].price > before[b].price =>
                           cities[a].state.price >= cities[b].state.price

(***************************************************************************)
(* C7.  Fixed point: once two successive update_prices calls, with no      *)
(* registration or reset in between, have left every city with the same    *)
(* state, every further call leaves every city with that state again.      *)
(***************************************************************************)
C7_FixedPoint ==
    \A i \in DOMAIN history : \A j \in DOMAIN history :
        (i + 1 \in DOMAIN history /\ history[i] = history[i + 1] /\ j > i) =>
            history[j] = history[i]

C7_Witness ==
    /\ Len(history) >= 3
    /\ history[1] = history[2]
    /\ \E g \in Roots : Len(group_lists[g]) >= 2 /\ cities[g].state.tag = "Equilibrium"

(***************************************************************************)
(* C8.  prices(), demand_volumes() and supply_volumes() have one entry for *)
(* every city; the entry is None exactly when the city is not in           *)
(* Equilibrium, and Some(p), Some(d), Some(s) when it is in                *)
(* Equilibrium(p, d, s).                                                   *)
(***************************************************************************)
C8_AccessorsFollowState ==
    /\ DOMAIN prices(cities) = Cities
    /\ DOMAIN demand_volumes(cities) = Cities
    /\ DOMAIN supply_volumes(cities) = Cities
    /\ \A c \in Cities :
           LET st == cities[c].state
           IN  IF st.tag = "Equilibrium"
               THEN /\ prices(cities)[c] = <<st.price>>
                    /\ demand_volumes(cities)[c] = <<st.demand>>
                    /\ supply_volumes(cities)[c] = <<st.supply>>
               ELSE /\ prices(cities)[c] = <<>>
                    /\ demand_volumes(cities)[c] = <<>>
                    /\ supply_volumes(cities)[c] = <<>>

C8_Witness ==
    /\ \E c \in Cities :
           /\ cities[c].state.tag = "Equilibrium"
           /\ cities[c].state.demand # cities[c].state.supply
           /\ cities[c].state.price # cities[c].state.demand
    /\ \E c \in Cities : cities[c].state.tag = "UnderSupply"
    /\ \E c \in Cities : cities[c].state.tag = "Undefined"

(***************************************************************************)
(* C9.  reset_prices sets the state of every city to Undefined and leaves  *)
(* the aggregate demand and supply of every city, and the geography, as    *)
(* they were; the update_prices that follows a reset writes the states     *)
(* that the first update_prices writes on a market built with the same     *)
(* aggregates and no initial prices, whatever the order in which that      *)
(* market iterates.                                                        *)
(***************************************************************************)
\* a step that is neither a registration nor part of a pass
IsResetStep == pc = "idle" /\ pc' = "idle" /\ ops' = ops

FreshMarket(cs) ==
    [c \in Cities |-> [Market_new(<<>>)[c] EXCEPT !.demand = cs[c].demand,
                                               !.supply = cs[c].supply]]

C9_ResetStep ==
    /\ IsResetStep =>
           /\ \A c \in Cities :
                  /\ cities'[c].state = [tag |-> "Undefined", price |-> 0,
                                         demand |-> 0, supply |-> 0]
                  /\ cities'[c].demand = cities[c].demand
                  /\ cities'[c].supply = cities[c].supply
           /\ connections' = connections
    /\ (pc = "clearing" /\ pc' = "idle" /\ reset_mark = "pass") =>
           \A it \in Iterations :
               states_of(cities') = states_of(update_prices(connections, FreshMarket(cities'), it))

C9_ResetDiscardsStates == [][C9_ResetStep]_vars

C9_Witness ==
    /\ PassReturned
    /\ reset_mark = "pass"
    /\ passes >= 2
    /\ \E c \in Cities : before[c].tag = "Undefined" /\ cities[c].state.tag = "Equilibrium"
    /\ \E g \in Roots : Len(group_lists[g]) >= 2

(***************************************************************************)
(* C10.  add_producer, remove_producer, add_consumer and remove_consumer   *)
(* change only the aggregate supply (producer) or demand (consumer) of the *)
(* entity's own city: the state of every city, the other aggregate of that *)
(* city and both aggregates of every other city stay as they were, and no  *)
(* state changes until update_prices (or reset_prices) is called.          *)
(***************************************************************************)
C10_RegistrationStep ==
    /\ ops' # ops =>
           /\ states_of(cities') = states_of(cities)
           /\ \A c \in Cities \ {last_call'.city} :
                  cities'[c].demand = cities[c].demand /\ cities'[c].supply = cities[c].supply
           /\ last_call'.op \in {"add_producer", "remove_producer"} =>
                  cities'[last_call'.city].demand = cities[last_call'.city].demand
           /\ last_call'.op \in {"add_consumer", "remove_consumer"} =>
                  cities'[last_call'.city].supply = cities[last_call'.city].supply
    /\ states_of(cities') # states_of(cities) => ops' = ops

C10_RegistrationFrame == [][C10_RegistrationStep]_vars

C10_Witness ==
    /\ last_call.op = "add_producer"
    /\ passes > 0
    /\ cities[last_call.city].state.tag = "UnderSupply"
    /\ cities[last_call.city].supply # <<>>
    /\ cities[last_call.city].demand # <<>>

(***************************************************************************)
(* Vocabulary of the properties of curves.                                 *)
(***************************************************************************)
\* the breakpoint arguments of a curve (none for the absent curve)
ArgsOf(fn) == IF IsSome(fn) THEN DOMAIN Unwrap(fn).intervals ELSE {}

\* the prices from one tick below the first breakpoint of the curves of F
\* to one tick above their last: beyond it every curve of F is constant
Window(F) ==
    LET A == UNION {ArgsOf(fn) : fn \in F}
    IN  IF A = {} THEN {0} ELSE (SetMin(A) - Eps) .. (SetMax(A) + Eps)

\* the steepest slope of a curve
Steepness(fn) ==
    LET A == ArgsOf(fn)
        f == Unwrap(fn)
    IN  SetMax({0} \cup {Abs(f.intervals[b] - f.intervals[a]) \div (b - a) :
                            <<a, b>> \in {ab \in A \X A : ab[1] < ab[2]}})

\* two states agree within the tolerance of the intersection: the same
\* kind, prices within Eps, volumes within what a curve moves over Eps
StatesAgree(s, t, slack) ==
    /\ s.tag = t.tag
    /\ Abs(s.price - t.price) <= Eps
    /\ Abs(s.demand - t.demand) <= slack
    /\ Abs(s.supply - t.supply) <= slack

(***************************************************************************)
(* C11.  remove_producer undoes add_producer, and remove_consumer undoes   *)
(* add_consumer, whatever the city had registered before (nothing          *)
(* included): after the pair the aggregate of the city evaluates to the    *)
(* same volume at every price as before the pair, and update_prices writes *)
(* for every city the state it would have written without the pair.        *)
(***************************************************************************)
PairUndone ==
    /\ IsSome(pair_base)
    /\ last_call.op \in {"remove_producer", "remove_consumer"}

C11_RemoveUndoesAdd ==
    PairUndone =>
        LET base == Unwrap(pair_base)
            c == last_call.city
            with_pair == update_prices(connections, cities, iteration)
            without == update_prices(connections, base, iteration)
        IN  /\ \A x \in Window({cities[c].demand, cities[c].supply,
                                 base[c].demand, base[c].supply}) :
                   /\ value(cities[c].demand, x) = value(base[c].demand, x)
                   /\ value(cities[c].supply, x) = value(base[c].supply, x)
            /\ \A k \in Cities :
                   StatesAgree(with_pair[k].state, without[k].state,
                               Eps * (Steepness(base[k].demand) + Steepness(base[k].supply)))

(***************************************************************************)
(* C12.  The classification of Demand::intersect and Supply::intersect.    *)
(***************************************************************************)
\* the calls of the classification, as <<demand, supply, state returned>>
Classified ==
    {<<calls[k].was, operand, calls[k].returned>> :
        k \in {j \in DOMAIN calls : calls[j].method = "Demand::intersect"}}
    \cup
    {<<operand, calls[k].was, calls[k].returned>> :
        k \in {j \in DOMAIN calls : calls[j].method = "Supply::intersect"}}

\* the excess of demand over supply at a price
Excess(demand, supply, x) == value(demand, x) - value(supply, x)

\* the curves meet at x or between x and the next tick
MeetAt(demand, supply, x) ==
    \/ Excess(demand, supply, x) = 0
    \/ Excess(demand, supply, x) > 0 /\ Excess(demand, supply, x + Eps) <= 0
    \/ Excess(demand, supply, x) < 0 /\ Excess(demand, supply, x + Eps) >= 0

Crosses(demand, supply) ==
    \E x \in Window({demand, supply}) : MeetAt(demand, supply, x)

\* the cached boundary values are those of the first and last breakpoint
Consistent(fn) ==
    IsSome(fn) => Unwrap(fn) = FunctionBase_new(Unwrap(fn).intervals)

NonIncreasing(fn) ==
    \A a \in ArgsOf(fn) : \A b \in ArgsOf(fn) :
        a < b => Unwrap(fn).intervals[a] >= Unwrap(fn).intervals[b]

NonDecreasing(fn) ==
    \A a \in ArgsOf(fn) : \A b \in ArgsOf(fn) :
        a < b => Unwrap(fn).intervals[a] <= Unwrap(fn).intervals[b]

PointsAgree(p, q, slack) ==
    /\ IsSome(p) <=> IsSome(q)
    /\ IsSome(p) =>
           /\ Abs(Unwrap(p)[1] - Unwrap(q)[1]) <= Eps
           /\ Abs(Unwrap(p)[2] - Unwrap(q)[2]) <= slack

C13_IntersectSymmetric ==
    \A k \in DOMAIN calls :
        calls[k].method = "intersect" =>
            PointsAgree(calls[k].returned,
                        FunctionNullable_intersect(operand, calls[k].was),
                        Eps * (Steepness(calls[k].was) + Steepness(operand)))

(***************************************************************************)
(* C14.  value(x) is the value of the first breakpoint when x is below it, *)
(* the value of the last breakpoint when x is above it, the value of the   *)
(* breakpoint when x is a breakpoint argument, and otherwise the linear    *)
(* interpolation of the two neighbouring breakpoints, which lies between   *)
(* their values; the absent curve is 0 everywhere.                         *)
(***************************************************************************)
ValueAsSpecified(fn, x, v) ==
    IF ~IsSome(fn) THEN v = 0
    ELSE LET pts == Unwrap(fn).intervals
             A == DOMAIN pts
         IN  IF x < SetMin(A) THEN v = pts[SetMin(A)]
             ELSE IF x > SetMax(A) THEN v = pts[SetMax(A)]
             ELSE IF x \in A THEN v = pts[x]
             ELSE LET a == SetMax({k \in A : k < x})
                      b == SetMin({k \in A : k > x})
                  IN  /\ (v - pts[a]) * (b - a) = (pts[b] - pts[a]) * (x - a)
                      /\ min(pts[a], pts[b]) <= v
                      /\ v <= max(pts[a], pts[b])

C14_ValueClampsAndInterpolates ==
    \A k \in DOMAIN calls :
        calls[k].method = "value" =>
            ValueAsSpecified(calls[k].was, calls[k].arg, calls[k].returned)

C14_Witness ==
    /\ \E k \in DOMAIN calls :
           /\ calls[k].method = "value"
           /\ IsSome(calls[k].was)
           /\ calls[k].arg > SetMax(ArgsOf(calls[k].was))
           /\ Steepness(calls[k].was) > 0
    /\ \E k \in DOMAIN calls :
           /\ calls[k].method = "value"
           /\ IsSome(calls[k].was)
           /\ calls[k].arg \notin ArgsOf(calls[k].was)
           /\ calls[k].arg > SetMin(ArgsOf(calls[k].was))
           /\ calls[k].arg < SetMax(ArgsOf(calls[k].was))
           /\ calls[k].returned \notin {Unwrap(calls[k].was).intervals[a] :
                                          a \in ArgsOf(calls[k].was)}

(***************************************************************************)
(* C15.  Additive round trip: after add_function(g) followed by            *)
(* substract_function(g) the curve evaluates, at every breakpoint argument *)
(* of the original curve and of g, to the value of the original curve.     *)
(***************************************************************************)
\* the calls k such that call k is add_function and call k + 1 is
\* substract_function (both with the operand)
AddThenSubstract ==
    {k \in DOMAIN calls :
        /\ k + 1 \in DOMAIN calls
        /\ calls[k].method = "add_function"
        /\ calls[k + 1].method = "substract_function"}

C15_AddSubstractRoundTrip ==
    \A k \in AddThenSubstract :
        \A a \in ArgsOf(calls[k].was) \cup ArgsOf(operand) :
            value(calls[k + 1].now, a) = value(calls[k].was, a)

C15_Witness ==
    \E k \in AddThenSubstract :
        /\ IsSome(calls[k].was)
        /\ Steepness(calls[k].was) > 0
        /\ Steepness(operand) > 0
        /\ ArgsOf(calls[k].was) \ ArgsOf(operand) # {}
        /\ ArgsOf(operand) \ ArgsOf(calls[k].was) # {}

(***************************************************************************)
(* C16.  Shift round trip, as stated: for every curve and every shift d,   *)
(* shift_right(d) followed by shift_left(d) gives back exactly the         *)
(* original breakpoints and cached boundary arguments and values, and one  *)
(* shift_right(d) moves every breakpoint argument and both cached          *)
(* arguments by d and leaves every value as it was, so that the shifted    *)
(* curve at x is the original curve at x - d.                              *)
(***************************************************************************)
ShiftedRight(was, now, d) ==
    IF ~IsSome(was) THEN now = was
    ELSE LET f == Unwrap(was)
             h == Unwrap(now)
         IN  /\ IsSome(now)
             /\ DOMAIN h.intervals = {a + d : a \in DOMAIN f.intervals}
             /\ \A a \in DOMAIN f.intervals : h.intervals[a + d] = f.intervals[a]
             /\ h.left_arg = f.left_arg + d /\ h.right_arg = f.right_arg + d
             /\ h.left_value = f.left_value /\ h.right_value = f.right_value
             /\ \A x \in Window({was, now}) : value(now, x) = value(was, x - d)

RoundTrip(k) ==
    /\ calls[k].method = "shift_right"
    /\ k + 1 \in DOMAIN calls
    /\ calls[k + 1].method = "shift_left"
    /\ calls[k + 1].arg = calls[k].arg

C16_ShiftExactForEveryShift ==
    \A k \in DOMAIN calls :
        /\ calls[k].method = "shift_right" =>
               ShiftedRight(calls[k].was, calls[k].now, calls[k].arg)
        /\ RoundTrip(k) => calls[k + 1].now = calls[k].was

(***************************************************************************)
(* C16, amended.  The same, for every curve and shift d such that each     *)
(* breakpoint argument and cached argument plus d is a Price that f64      *)
(* holds exactly.                                                          *)
(***************************************************************************)
ShiftsExactly(fn, d) ==
    IsSome(fn) =>
        \A a \in ArgsOf(fn) \cup {Unwrap(fn).left_arg, Unwrap(fn).right_arg} :
            Price_round(a + d) = a + d

C16_ShiftRoundTrip ==
    \A k \in DOMAIN calls :
        /\ ( /\ calls[k].method = "shift_right"
             /\ ShiftsExactly(calls[k].was, calls[k].arg) ) =>
               ShiftedRight(calls[k].was, calls[k].now, calls[k].arg)
        /\ ( /\ RoundTrip(k)
             /\ ShiftsExactly(calls[k].was, calls[k].arg) ) =>
               calls[k + 1].now = calls[k].was

C16_Witness ==
    \E k \in DOMAIN calls :
        /\ RoundTrip(k)
        /\ IsSome(calls[k].was)
        /\ ShiftsExactly(calls[k].was, calls[k].arg)
        /\ Steepness(calls[k].was) > 0
        /\ calls[k].now # calls[k].was

(***************************************************************************)
(* C17.  add_function and substract_function on two present curves give a  *)
(* curve whose breakpoint arguments are exactly the union of the           *)
(* breakpoint arguments of the two, each with the value                    *)
(* self.value(x) + other.value(x) (minus for substract_function), and      *)
(* which at every argument, those outside the range of either curve        *)
(* included, is the sum (difference) of the two clamped, interpolated      *)
(* curves.                                                                 *)
(***************************************************************************)
CombinedPointwise(was, other, now, sign) ==
    /\ IsSome(now)
    /\ ArgsOf(now) = ArgsOf(was) \cup ArgsOf(other)
    /\ \A a \in ArgsOf(now) :
           Unwrap(now).intervals[a] = value(was, a) + sign * value(other, a)
    /\ \A x \in Window({was, other}) :
           value(now, x) = value(was, x) + sign * value(other, x)

C17_CombinesOnUnionOfBreakpoints ==
    \A k \in DOMAIN calls :
        (IsSome(calls[k].was) /\ IsSome(operand)) =>
            /\ calls[k].method = "add_function" =>
                   CombinedPointwise(calls[k].was, operand, calls[k].now, 1)
            /\ calls[k].method = "substract_function" =>
                   CombinedPointwise(calls[k].was, operand, calls[k].now, 0 - 1)

C17_Witness ==
    \E k \in DOMAIN calls :
        /\ calls[k].method \in {"add_function", "substract_function"}
        /\ IsSome(calls[k].was) /\ IsSome(operand)
        /\ Steepness(calls[k].was) > 0 /\ Steepness(operand) > 0
        /\ ArgsOf(calls[k].was) \ ArgsOf(operand) # {}
        /\ ArgsOf(operand) \ ArgsOf(calls[k].was) # {}
        /\ SetMax(ArgsOf(calls[k].was)) # SetMax(ArgsOf(operand))

(***************************************************************************)
(* C18.  negate negates arguments and values symmetrically: every          *)
(* breakpoint (a, v) of the curve becomes (-a, -v), and the cached         *)
(* leftmost and rightmost argument and value are those of the negated      *)
(* breakpoints.  substract_function on an absent receiver stores the       *)
(* negated operand.                                                        *)
(***************************************************************************)
CachesMatchBreakpoints(f) ==
    /\ f.left_arg = SetMin(DOMAIN f.intervals)
    /\ f.right_arg = SetMax(DOMAIN f.intervals)
    /\ f.left_value = f.intervals[f.left_arg]
    /\ f.right_value = f.intervals[f.right_arg]

NegatedSymmetrically(was, now) ==
    /\ DOMAIN now.intervals = {0 - a : a \in DOMAIN was.intervals}
    /\ \A a \in DOMAIN was.intervals : now.intervals[0 - a] = 0 - was.intervals[a]
    /\ CachesMatchBreakpoints(now)

C18_NegateSymmetric ==
    \A k \in DOMAIN calls :
        /\ (calls[k].method = "negate" /\ IsSome(calls[k].was)) =>
               /\ IsSome(calls[k].now)
               /\ NegatedSymmetrically(Unwrap(calls[k].was), Unwrap(calls[k].now))
        /\ ( /\ calls[k].method = "substract_function"
             /\ ~IsSome(calls[k].was)
             /\ IsSome(operand) ) =>
               /\ IsSome(calls[k].now)
               /\ NegatedSymmetrically(Unwrap(operand), Unwrap(calls[k].now))

(***************************************************************************)
(* C19.  An absent curve behaves as the algebraic identity under every     *)
(* operator: value, add_function, substract_function, the shifts,          *)
(* intersect and the Demand/Supply classification give, for an absent      *)
(* receiver or operand, what they give for a present curve that is         *)
(* constantly 0 in its place (the same curve, the same point and the same  *)
(* market state, within the tolerance of the intersection), and adding or  *)
(* subtracting an absent curve leaves the receiver as it was.              *)
(***************************************************************************)
ZeroCurves ==
    {c \in Curves : IsSome(c) /\ \A a \in ArgsOf(c) : Unwrap(c).intervals[a] = 0}

Present(fn, z) == IF IsSome(fn) THEN fn ELSE z

SameCurve(f, g) ==
    /\ \A x \in Window({f, g}) : value(f, x) = value(g, x)
    /\ left_value(f) = left_value(g)
    /\ right_value(f) = right_value(g)

AsWithZeroCurve(c, z) ==
    LET w == Present(c.was, z)
        o == Present(operand, z)
        slack == Eps * max(Steepness(c.was), Steepness(operand))
    IN  CASE c.method = "value" -> c.returned = value(w, c.arg)
          [] c.method = "add_function" ->
                 /\ SameCurve(c.now, add_function(w, o))
                 /\ ~IsSome(operand) => c.now = c.was
          [] c.method = "substract_function" ->
                 /\ SameCurve(c.now, substract_function(w, o))
                 /\ ~IsSome(operand) => c.now = c.was
          [] c.method = "shift_right" -> SameCurve(c.now, shift_right(w, c.arg))
          [] c.method = "shift_left" -> SameCurve(c.now, shift_left(w, c.arg))
          [] c.method = "intersect" ->
                 PointsAgree(c.returned, FunctionNullable_intersect(w, o), slack)
          [] c.method = "Demand::intersect" ->
                 StatesAgree(c.returned, Demand_intersect(w, o), slack)
          [] c.method = "Supply::intersect" ->
                 StatesAgree(c.returned, Supply_intersect(w, o), slack)
          [] OTHER -> TRUE

C19_AbsentIsIdentity ==
    \A k \in DOMAIN calls :
        (~IsSome(calls[k].was) \/ ~IsSome(operand)) =>
            \A z \in ZeroCurves : AsWithZeroCurve(calls[k], z)

(***************************************************************************)
(* C20.  After update_prices, every member c of a group whose joint solve  *)
(* is Equilibrium at group price p has the state                           *)
(* Equilibrium(p + offset(c), D_c(p + offset(c)), S_c(p + offset(c))),     *)
(* offset(c) being the offset of c in the partition and D_c, S_c the       *)
(* city's own aggregate curves.  The group curves that are intersected are *)
(* the sums over the members of D_c and S_c shifted left by offset(c): at  *)
(* every group price they are the sum of the members' curves at the        *)
(* members' local prices.                                                  *)
(***************************************************************************)
GroupCurves(g) ==
    group_curves(cities, group_lists[g], <<FunctionNullable_zero, FunctionNullable_zero>>)

MemberDemandAt(g, q) ==
    SumOver([c \in Cities |->
                IF c \in MembersOf(group_lists, g)
                THEN value(cities[c].demand, q + OffsetOf(c)) ELSE 0],
            MembersOf(group_lists, g))

MemberSupplyAt(g, q) ==
    SumOver([c \in Cities |->
                IF c \in MembersOf(group_lists, g)
                THEN value(cities[c].supply, q + OffsetOf(c)) ELSE 0],
            MembersOf(group_lists, g))

BackProjected(g, p) ==
    \A c \in MembersOf(group_lists, g) :
        cities[c].state =
            Equilibrium(p + OffsetOf(c),
                        value(cities[c].demand, p + OffsetOf(c)),
                        value(cities[c].supply, p + OffsetOf(c)))

C20_BackProjection ==
    PassReturned =>
        \A g \in Roots :
            LET curves == GroupCurves(g)
                joint == Demand_intersect(curves[1], curves[2])
            IN  /\ \A q \in Window({curves[1], curves[2]}) :
                       /\ value(curves[1], q) = MemberDemandAt(g, q)
                       /\ value(curves[2], q) = MemberSupplyAt(g, q)
                /\ joint.tag = "Equilibrium" => BackProjected(g, joint.price)

C20_Witness ==
    /\ PassReturned
    /\ \E g \in Roots :
           /\ \E c \in MembersOf(group_lists, g) : OffsetOf(c) # 0
           /\ cities[g].state.tag = "Equilibrium"
           /\ \E c \in MembersOf(group_lists, g) :
                  cities[c].state.price # cities[g].state.price
           /\ \E c \in MembersOf(group_lists, g) :
                  cities[c].state.demand # cities[c].state.supply

(***************************************************************************)
(* C21.  After update_prices, when the joint solve of a group is not       *)
(* Equilibrium (UnderSupply, OverSupply or Undefined), every member of the *)
(* group has exactly that state, and none keeps a price or volumes of the  *)
(* pass before.  Every city is a member of one group of the pass, so every *)
(* city's state is written in every pass: it is the state its group's      *)
(* solve gives it.                                                         *)
(***************************************************************************)
JointSolve(g) == Demand_intersect(GroupCurves(g)[1], GroupCurves(g)[2])

C21_DegenerateStateForAllMembers ==
    PassReturned =>
        /\ \A g \in Roots :
               JointSolve(g).tag # "Equilibrium" =>
                   \A c \in MembersOf(group_lists, g) :
                       /\ cities[c].state = JointSolve(g)
                       /\ cities[c].state \in {UnderSupply, OverSupply, Undefined}
                       /\ price(cities[c]) = None
                       /\ demand_volume(cities[c]) = None
                       /\ supply_volume(cities[c]) = None
        /\ \A c \in Cities :
               \E g \in Roots :
                   /\ c \in MembersOf(group_lists, g)
                   /\ cities[c].state = new_state(JointSolve(g), cities[c], OffsetOf(c))

C21_Witness ==
    /\ PassReturned
    /\ \E g \in Roots :
           /\ JointSolve(g).tag \in {"UnderSupply", "OverSupply"}
           /\ Cardinality(MembersOf(group_lists, g)) > 1
           /\ \E c \in MembersOf(group_lists, g) :
                  /\ before[c].tag = "Equilibrium"
                  /\ before[c].price # 0

(***************************************************************************)
(* C22.  For two present curves intersect returns no point if and only if  *)
(* one of them is strictly above the other at both extremes: its leftmost  *)
(* value and its rightmost value are both strictly greater than the        *)
(* other's.  Equality at either extreme is no rejection: two constant      *)
(* curves of different value do not intersect, two of equal value do.      *)
(***************************************************************************)
LeftmostValue(f) == f.intervals[SetMin(DOMAIN f.intervals)]

RightmostValue(f) == f.intervals[SetMax(DOMAIN f.intervals)]

StrictlyAboveAtBothExtremes(f, g) ==
    /\ LeftmostValue(f) > LeftmostValue(g)
    /\ RightmostValue(f) > RightmostValue(g)

IsConstant(f) == \A a, b \in DOMAIN f.intervals : f.intervals[a] = f.intervals[b]

IntersectCalls ==
    {k \in DOMAIN calls :
        calls[k].method = "intersect" /\ IsSome(calls[k].was) /\ IsSome(operand)}

C22_RejectsIffAboveAtBothExtremes ==
    \A k \in IntersectCalls :
        LET f == Unwrap(calls[k].was)
            g == Unwrap(operand)
        IN  /\ calls[k].returned = None <=>
                   \/ StrictlyAboveAtBothExtremes(f, g)
                   \/ StrictlyAboveAtBothExtremes(g, f)
            /\ (IsConstant(f) /\ IsConstant(g)) =>
                   (calls[k].returned = None <=> LeftmostValue(f) # LeftmostValue(g))

(***************************************************************************)
(* C23.  Whenever intersect returns a point (p, v) for two present curves  *)
(* f and g, p lies inside the combined argument range of the two curves    *)
(* and within the tolerance of the bisection of an argument where f and g  *)
(* cross, so that f(p) and g(p) agree within the tolerance and v is both;  *)
(* this for every pair that is not rejected, pairs with equal leftmost     *)
(* values and pairs with misaligned breakpoints included.                  *)
(***************************************************************************)
ReturnedCrossing(f, g, point) ==
    LET p == point[1]
        v == point[2]
        A == ArgsOf(f) \cup ArgsOf(g)
        slack == Eps * (Steepness(f) + Steepness(g))
    IN  /\ SetMin(A) <= p /\ p <= SetMax(A)
        /\ MeetAt(f, g, p)
        /\ Abs(value(f, p) - value(g, p)) <= slack
        /\ Abs(v - value(f, p)) <= slack
        /\ Abs(v - value(g, p)) <= slack

C23_ReturnedPointIsCrossing ==
    \A k \in IntersectCalls :
        IsSome(calls[k].returned) =>
            ReturnedCrossing(calls[k].was, operand, Unwrap(calls[k].returned))

(***************************************************************************)
(* C24.  During partitioning, when the states of the two endpoints of a    *)
(* connection are in none of the Equilibrium and sentinel cases (at least  *)
(* one endpoint Undefined, or both UnderSupply, or both OverSupply), the   *)
(* two cities are joined through the connection only when its cost is      *)
(* exactly zero.  Hence a city is alone in its group when each of its      *)
(* connections is of that kind with a non-zero cost, and on the first      *)
(* update_prices of a market without initial prices and with non-zero      *)
(* costs every city is a group of its own and is cleared from its own      *)
(* demand and supply alone.                                                *)
(***************************************************************************)
Uncovered(state_from, state_to) ==
    \/ state_from.tag = "Undefined"
    \/ state_to.tag = "Undefined"
    \/ state_from.tag = "UnderSupply" /\ state_to.tag = "UnderSupply"
    \/ state_from.tag = "OverSupply" /\ state_to.tag = "OverSupply"

UncoveredBefore(conn) == Uncovered(before[conn.id_from], before[conn.id_to])

\* the connection passes the joining test on the states of the pass's start
QualifiesBefore(conn) ==
    LET pr == endpoint_prices(before[conn.id_from], before[conn.id_to])
    IN  joins(pr[1], pr[2], conn.cost)

C24_UncoveredJoinOnlyAtZeroCost ==
    Partitioned =>
        /\ \A conn \in ConnectionsSet :
               UncoveredBefore(conn) =>
                   /\ QualifiesBefore(conn) <=> conn.cost = 0
                   /\ conn.cost = 0 => GroupIdOf(conn.id_from) = GroupIdOf(conn.id_to)
        /\ \A c \in Cities :
               (\A conn \in ConnectionsSet :
                    c \in {conn.id_from, conn.id_to} =>
                        UncoveredBefore(conn) /\ conn.cost # 0) =>
                   group_lists[c] = << <<c, 0>> >>
        /\ ( /\ \A c \in Cities : before[c] = Undefined
             /\ \A conn \in ConnectionsSet : conn.cost # 0 ) =>
               \A c \in Cities :
                   /\ group_lists[c] = << <<c, 0>> >>
                   /\ PassReturned =>
                          cities[c].state =
                              new_state(Demand_intersect(cities[c].demand, cities[c].supply),
                                        cities[c], 0)

C24_Witness ==
    /\ PassReturned
    /\ \E conn \in ConnectionsSet :
           /\ before[conn.id_from].tag = "UnderSupply"
           /\ before[conn.id_to].tag = "UnderSupply"
           /\ conn.cost # 0
           /\ GroupIdOf(conn.id_from) # GroupIdOf(conn.id_to)
    /\ \E conn \in ConnectionsSet :
           /\ before[conn.id_from].tag = "Undefined"
           /\ before[conn.id_to].tag = "UnderSupply"
           /\ conn.cost = 0
           /\ GroupIdOf(conn.id_from) = GroupIdOf(conn.id_to)

(***************************************************************************)
(* C25.  Within one pass of update_prices the tasks of the groups may run  *)
(* in any interleaving.  The task of a group reads only the demand and     *)
(* supply of the members of the group and writes only the MarketState of   *)
(* those members, no two tasks touch the same city, and the states of the  *)
(* cities at the end of the pass are those that the groups give when they  *)
(* are processed one after another, in any order.                          *)
(***************************************************************************)
\* the market with every city outside S blank
OnlyCities(cs, S) == [c \in DOMAIN cs |-> IF c \in S THEN cs[c] ELSE CityData_new]

TasksApart ==
    \A g \in Roots : \A h \in Roots :
        g # h => MembersOf(group_lists, g) \cap MembersOf(group_lists, h) = {}

SequentialInAnyOrder ==
    PassReturned =>
        \A order \in Iterations :
            states_of(cities) = states_of(clear_groups(MarketBefore, group_lists, order))

C25_TaskStep ==
    /\ \A g \in Cities :
           (state_global[g] = None /\ state_global'[g] # None) =>
               /\ g \in pending
               /\ Unwrap(state_global'[g]) =
                      group_state(OnlyCities(cities, MembersOf(group_lists, g)),
                                  group_lists[g])
    /\ cities' # cities =>
           \E g \in pending :
               /\ pc = "clearing"
               /\ state_global[g] # None
               /\ \A c \in Cities :
                      cities'[c] # cities[c] =>
                          /\ c \in MembersOf(group_lists, g)
                          /\ cities'[c].demand = cities[c].demand
                          /\ cities'[c].supply = cities[c].supply
                          /\ cities'[c].state =
                                 new_state(Unwrap(state_global[g]),
                                           [CityData_new EXCEPT !.demand = cities[c].demand,
                                                                !.supply = cities[c].supply],
                                           OffsetOf(c))

C25_TasksInterleave ==
    /\ [](pc = "clearing" => TasksApart)
    /\ []SequentialInAnyOrder
    /\ [][C25_TaskStep]_vars

C25_Witness ==
    /\ pc = "clearing"
    /\ \E g \in pending : \E h \in pending :
           /\ g # h
           /\ state_global[g] # None /\ written[g] > 0
           /\ state_global[h] # None
           /\ cities[g].state # before[g]
           /\ \E order \in Iterations :
                  order[1] = h
                  /\ states_of(clear_groups(MarketBefore, group_lists, order))
                         # states_of(MarketBefore)

(***************************************************************************)
(* C26.  The partitioning of a pass never observes a partially updated     *)
(* pass.  Within update_prices the membership and the offsets of every     *)
(* group are computed before the first MarketState is written, and every   *)
(* write of one pass has completed before the partitioning of the next     *)
(* reads a state: the groups of a pass are a function of the states that   *)
(* the completed pass before it left.                                      *)
(***************************************************************************)
NoTaskUnderWay == pc = "idle" /\ pending = {} /\ NoTasks

WithStates(cs, states) == [c \in DOMAIN cs |-> [cs[c] EXCEPT !.state = states[c]]]

C26_PartitionStep ==
    /\ group_lists' # group_lists =>
           /\ NoTaskUnderWay
           /\ cities' = cities
           /\ before' = states_of(cities)
           /\ group_lists' = calculate_groups(connections, cities, iteration)
           /\ history # <<>> =>
                  group_lists' =
                      calculate_groups(connections,
                                       WithStates(cities, history[Len(history)]),
                                       iteration)
    /\ passes' # passes =>
           /\ NoTaskUnderWay
           /\ cities' = cities
           /\ pending' = {g \in Cities : group_lists'[g] # <<>>}
    /\ states_of(cities') # states_of(cities) =>
           /\ pc = "clearing"
           /\ group_lists' = group_lists
           /\ before' = before

C26_PartitionSeesCompletedPass == [][C26_PartitionStep]_vars

C26_Witness ==
    /\ passes >= 2
    /\ JustPartitioned /\ NoTasks
    /\ history # <<>>
    /\ before = history[Len(history)]
    /\ \E c \in Cities : before[c].tag = "Equilibrium" /\ before[c].price # 0
    /\ \E g \in Roots : Len(group_lists[g]) > 1
    /\ \E g \in Roots : Len(group_lists[g]) = 1

(***************************************************************************)
(* C27: update_prices terminates.  The traversal puts every city into      *)
(* exactly one group, and the bisection of every group's joint solve ends: *)
(* while a pass is under way, every group whose state is still to be       *)
(* solved has a solve that returns, so that no task of the pass is left    *)
(* inside its bisection for ever.                                          *)
(***************************************************************************)
EachCityInOneGroup ==
    \A c \in Cities :
        Cardinality({<<g, k>> \in Cities \X (1 .. Cardinality(Cities)) :
                        k <= Len(group_lists[g]) /\ group_lists[g][k][1] = c}) = 1

EverySolveReturns ==
    \A g \in pending :
        state_global[g] = None => group_state_returns(cities, group_lists[g])

C27_UpdatePricesTerminates ==
    pc = "clearing" => (EachCityInOneGroup /\ EverySolveReturns)

\* the traversal alone ends with every city in exactly one group
C27_TraversalCoversEachCityOnce == pc = "clearing" => EachCityInOneGroup

(***************************************************************************)
(* C28.  After any sequence of construction, add_value, substract_value,   *)
(* add_function, substract_function, shift_right, shift_left and negate,   *)
(* subtraction from an absent curve included, the cached left_arg and      *)
(* left_value of a curve are the argument and value of its breakpoint of   *)
(* smallest argument, and the cached right_arg and right_value those of    *)
(* its breakpoint of largest argument; so the boundary values that         *)
(* intersect and the classification read are those of the curve.           *)
(***************************************************************************)
BoundaryValuesSeen(self) ==
    IsSome(self) =>
        /\ left_value(self) = value(self, SetMin(DOMAIN Unwrap(self).intervals))
        /\ right_value(self) = value(self, SetMax(DOMAIN Unwrap(self).intervals))

C28_CachesAreBoundaryBreakpoints ==
    /\ IsSome(receiver) => CachesMatchBreakpoints(Unwrap(receiver))
    /\ BoundaryValuesSeen(receiver)

\* the same of a receiver that no call has negated, and that was not made
\* by subtraction from an absent curve
NeverNegated ==
    \A k \in DOMAIN calls :
        /\ calls[k].method # "negate"
        /\ calls[k].method = "substract_function" => IsSome(calls[k].was)

\* the shifts that move no two breakpoints of the receiver onto one float
NeverMerged ==
    \A k \in DOMAIN calls :
        (calls[k].method \in {"shift_right", "shift_left"} /\ IsSome(calls[k].was)) =>
            Cardinality(DOMAIN Unwrap(calls[k].now).intervals)
                = Cardinality(DOMAIN Unwrap(calls[k].was).intervals)

C28_CachesKeptWithoutNegate ==
    (NeverNegated /\ NeverMerged) => C28_CachesAreBoundaryBreakpoints

(***************************************************************************)
(* C29.  A group that clears never splits on the next pass: where the      *)
(* joint solve of a group of the last pass was an Equilibrium, and no      *)
(* registration has changed since, the partition of the next pass has one  *)
(* group that holds all its members.  Groups split between passes only     *)
(* after a degenerate result.                                              *)
(***************************************************************************)
GroupCleared(g) ==
    /\ group_lists[g] # <<>>
    /\ \A c \in MembersOf(group_lists, g) : cities[c].state.tag = "Equilibrium"

KeptTogether(g) ==
    \E h \in Cities : MembersOf(group_lists, g) \subseteq MembersOf(group_lists', h)

C29_NextPartition ==
    (pc = "idle" /\ pc' = "clearing" /\ passes > 0) =>
        \A g \in Cities : GroupCleared(g) => KeptTogether(g)

C29_ClearedGroupNeverSplits == [][C29_NextPartition]_vars

\* a second pass has partitioned the cities that the pass before it had
\* cleared together, at prices that differ
C29_Witness ==
    /\ passes >= 2 /\ pc = "clearing"
    /\ \E g \in Cities :
          /\ Cardinality(MembersOf(group_lists, g)) >= 2
          /\ \A c \in MembersOf(group_lists, g) : before[c].tag = "Equilibrium"
          /\ \E c, d \in MembersOf(group_lists, g) : before[c].price # before[d].price

(***************************************************************************)
(* C30.  The state that update_prices writes to a city does not depend on  *)
(* the order of the traversal: from the same market, whichever city the    *)
(* traversal of each group starts from and in whichever order the          *)
(* connections of a city are explored, every city is written the same      *)
(* kind of state at the same price (to within the tolerance of the         *)
(* bisection, which depends on the bracket and so on the root), also where *)
(* the qualifying connections of a group form a cycle.                     *)
(***************************************************************************)
SameWithinTolerance(s, t) ==
    /\ s.tag = t.tag
    /\ Abs(s.price - t.price) <= Eps

WrittenAlike(e, it) ==
    LET other == update_prices(e, MarketBefore, it)
    IN  \A c \in Cities : SameWithinTolerance(other[c].state, cities[c].state)

C30_StateIndependentOfTraversal ==
    PassReturned =>
        \A it \in Iterations : \A e \in ExplorationOrders : WrittenAlike(e, it)

\* the networks without a cycle: every connection is held once by each of
\* its ends, and a cycle through the cities needs as many connections as
\* there are cities
Acyclic == Cardinality(ConnectionsSet) < 2 * Cardinality(Cities)

C30_StateIndependentWithoutCycles == Acyclic => C30_StateIndependentOfTraversal

====
